---- MODULE Spec2Model ----
(***************************************************************************)
(* A model of caladrius' QuasiSiameseNetwork (src/caladrius/model/         *)
(* trainer.py): construction, run_epoch, train, test and inference, as one *)
(* sequential state machine.  One object is constructed; its public        *)
(* methods are then called one after the other.  The network, the data    *)
(* loaders and the rolling evaluator are collaborators that are not part   *)
(* of the file: the network's output is a symbolic value tagged with the   *)
(* weights that produced it, a loader is a sequence of batch sizes, and    *)
(* the evaluator's score tuple is an input of every finalization.          *)
(***************************************************************************)
EXTENDS Integers, Sequences, FiniteSets, TLC

(***************************************************************************)
(* Bounds of the model.                                                    *)
(***************************************************************************)
MaxSamples == 3
MaxBatchSize == 2
MaxEpochs == 5
MaxScore == 2

(***************************************************************************)
(* Program constants.                                                      *)
(***************************************************************************)
n_classes == 4
InputSize == 2
MantissaBits == 23

(***************************************************************************)
(* Arithmetic helpers.  A number is a pair <<n, d>> (n/d, d > 0) in lowest *)
(* terms, so that equal numbers are equal pairs.                           *)
(***************************************************************************)
RECURSIVE Pow2(_)
Pow2(k) == IF k = 0 THEN 1 ELSE 2 * Pow2(k - 1)

RECURSIVE Gcd(_, _)
Gcd(a, b) == IF b = 0 THEN a ELSE Gcd(b, a % b)

Rat(n, d) == LET g == Gcd(n, d) IN <<n \div g, d \div g>>

RECURSIVE Sum(_)
Sum(s) == IF s = <<>> THEN 0 ELSE Head(s) + Sum(Tail(s))

RECURSIVE Numel(_)
Numel(shape) == IF shape = <<>> THEN 1 ELSE Head(shape) * Numel(Tail(shape))

Min(a, b) == IF a < b THEN a ELSE b

(* statistics.mean of a non-empty list of labels. *)
Mean(labels) == Rat(Sum(labels), Len(labels))

(* The binary exponent e of a positive number: 2^e <= n/d < 2^(e+1). *)
Exponent(q) ==
    CHOOSE e \in -8 .. 8 :
        /\ IF e >= 0 THEN Pow2(e) * q[2] <= q[1] ELSE q[2] <= Pow2(-e) * q[1]
        /\ IF e + 1 >= 0 THEN q[1] < Pow2(e + 1) * q[2]
                         ELSE Pow2(-(e + 1)) * q[1] < q[2]

(* A Python float stored in a tensor of the default dtype: rounded to the  *)
(* nearest single-precision value, ties to even.                           *)
RoundF32(q) ==
    IF q[1] = 0 THEN <<0, 1>>
    ELSE LET s == MantissaBits - Exponent(q)
             scaled == q[1] * Pow2(s)
             m == scaled \div q[2]
             r == scaled % q[2]
             up == IF 2 * r > q[2] THEN 1
                   ELSE IF 2 * r = q[2] THEN m % 2 ELSE 0
         IN  Rat(m + up, Pow2(s))

(* Tensor.clamp(0, 1) of one non-negative element. *)
NoClamp(q) == q
Clamp01(q) == IF q[1] > q[2] THEN <<1, 1>> ELSE q

(* Tensor.squeeze(): every dimension of size 1 is removed. *)
Squeeze(shape) == SelectSeq(shape, LAMBDA d : d # 1)

(***************************************************************************)
(* Inputs.                                                                 *)
(***************************************************************************)
ModelTypes == {"inception", "light", "random", "average", "probability", "bogus"}
OutputTypes == {"regression", "classification", "bogus"}
NeuralModels == {"inception", "light"}
StatisticalModels == {"random", "average"}
Phases == {"train", "validation", "test"}

(* A loader: the sizes of its batches, in order.  n samples are cut into   *)
(* batches of b samples, the last batch holding what is left.              *)
BatchSizes(n, b) ==
    [k \in 1 .. ((n + b - 1) \div b) |-> IF k * b <= n THEN b ELSE n - (k - 1) * b]

Loaders == {BatchSizes(n, b) : n \in 1 .. MaxSamples, b \in 1 .. MaxBatchSize}

(* Sample i of a split has filename i and label i % 2.                     *)
SampleLabel(i) == i % 2

(* The filenames of batch k of a loader. *)
BatchFiles(ld, k) ==
    LET first == Sum(SubSeq(ld, 1, k - 1)) IN [j \in 1 .. ld[k] |-> first + j]

(* The labels of the training split, in dataset order: the two splits the  *)
(* specification names, and splits with a tie of most frequent labels, a   *)
(* mean that single precision cannot hold, and a single sample.            *)
TrainLabelLists ==
    {<<1, 1, 1, 2, 3>>, <<0, 0, 1, 2>>, <<0, 1>>, <<1, 0>>, <<0, 0, 1>>, <<1>>}

(* What datasets.load("train") holds when test or inference loads it: only *)
(* a statistical model loads it.                                           *)
TrainSets(a) == IF a.statistical_model THEN TrainLabelLists ELSE {<<>>}

NoTrainSet == [loaded |-> FALSE, labels |-> <<>>]
LoadedTrainSet(labels) == [loaded |-> TRUE, labels |-> labels]

(* A selection-metric specifier is its text, cut at the underscores.       *)
RecallMicro == <<"recall", "_", "micro">>
SelectionMetrics ==
    {RecallMicro, <<"f1", "_", "macro">>, <<"accuracy">>, <<"recall", "_", "samples">>}

(* The score tuple of the rolling evaluator: positions 3, 4 and 5 hold the *)
(* micro, macro and weighted (precision, recall, f1) triples.  Scores are  *)
(* counted in units of 1 / MaxScore.                                       *)
ScoreTuples ==
    {[i \in 3 .. 5 |-> [j \in 0 .. 2 |-> IF i = 3 THEN a ELSE b]] :
        a \in 0 .. MaxScore, b \in 0 .. MaxScore}

(***************************************************************************)
(* Values written to a prediction file.  src = "net": the network's        *)
(* output for sample d under weights n; "rand": a random draw; "const": a  *)
(* the number n/d.                                                         *)
(***************************************************************************)
NetValue(wts, sample) == [src |-> "net", n |-> wts, d |-> sample]
RandValue == [src |-> "rand", n |-> 0, d |-> 1]
Const(q) == [src |-> "const", n |-> q[1], d |-> q[2]]
NoValue == [src |-> "none", n |-> 0, d |-> 1]

Line(kind, filename, label, pred, k1, k2, blob) ==
    [kind |-> kind, filename |-> filename, label |-> label, pred |-> pred,
     k1 |-> k1, k2 |-> k2, blob |-> blob]
HeaderLabelled == Line("filename label prediction", 0, 0, NoValue, "", "", <<>>)
HeaderUnlabelled == Line("filename prediction", 0, 0, NoValue, "", "", <<>>)
SampleLine(f, l, p) == Line("sample", f, l, p, "", "", <<>>)
InferenceLine(f, p) == Line("inference sample", f, 0, p, "", "", <<>>)
TrailerLine(e, k1, k2, v) == Line("trailer", e, 0, Const(<<v, 1>>), k1, k2, <<>>)
PickleBlob(list) == Line("pickle", 0, 0, NoValue, "", "", list)

NoFile == [phase |-> "", epoch |-> 0, binary |-> FALSE, open |-> FALSE, content |-> <<>>]

(***************************************************************************)
(* The pure parts of the trainer.                                          *)
(***************************************************************************)

(* str.split("_"): the words between the underscores. *)
RECURSIVE Split(_)
Split(s) ==
    IF s = <<>> THEN <<"">>
    ELSE IF Head(s) = "_" THEN <<"">> \o Split(Tail(s))
    ELSE <<Head(s)>> \o Tail(Split(Tail(s)))

first_index == [micro |-> 3, macro |-> 4, weighted |-> 5]
second_index == [precision |-> 0, recall |-> 1, f1 |-> 2]

(* Lines 274-281: "" when the specifier selects a metric, otherwise the    *)
(* exception the selection raises.                                         *)
SelectionError(selection_metric) ==
    LET parts == Split(selection_metric)
    IN  IF Len(parts) # 2 THEN "ValueError"
        ELSE IF parts[2] \notin DOMAIN first_index \/ parts[1] \notin DOMAIN second_index
             THEN "KeyError"
        ELSE ""

MainMetric(epoch_score, selection_metric) ==
    LET parts == Split(selection_metric)
    IN  epoch_score[first_index[parts[2]]][second_index[parts[1]]]

(* statistics.mode: the most frequent label.  With several most frequent   *)
(* labels the interpreter either returns the first one met (3.8 and later) *)
(* or raises StatisticsError (before 3.8).                                 *)
Count(labels, v) == Cardinality({i \in 1 .. Len(labels) : labels[i] = v})
Modes(labels) ==
    {labels[i] : i \in {j \in 1 .. Len(labels) :
        \A k \in 1 .. Len(labels) : Count(labels, labels[k]) <= Count(labels, labels[j])}}
FirstMode(labels) ==
    labels[CHOOSE i \in 1 .. Len(labels) :
              /\ labels[i] \in Modes(labels)
              /\ \A j \in 1 .. i - 1 : labels[j] \notin Modes(labels)]

Ok(q) == [error |-> "", value |-> q]
Raise(e) == [error |-> e, value |-> <<0, 1>>]
NoAverage == <<-1, 1>>

calculate_average_label(output_type, train_set) ==
    IF ~train_set.loaded THEN {Raise("TypeError")}
    ELSE IF output_type = "regression" THEN {Ok(Mean(train_set.labels))}
    ELSE IF Cardinality(Modes(train_set.labels)) = 1
         THEN {Ok(<<FirstMode(train_set.labels), 1>>)}
    ELSE {Ok(<<FirstMode(train_set.labels), 1>>), Raise("StatisticsError")}

(* torch.max(outputs, 1) of one row: the first index holding the maximum. *)
ArgMax(row) ==
    CHOOSE c \in DOMAIN row :
        /\ \A o \in DOMAIN row : row[o] <= row[c]
        /\ \A o \in DOMAIN row : o < c => row[o] < row[c]

(* One row of get_average_output_values. *)
AverageRow(output_type, average_label) ==
    IF output_type = "regression" THEN <<RoundF32(average_label)>>
    ELSE [c \in 1 .. n_classes |-> IF c - 1 = average_label[1] THEN 1 ELSE 0]

(* The shape of the network's raw output for a batch of b samples. *)
NetworkShape(output_type, b) ==
    <<b, IF output_type = "regression" THEN 1 ELSE n_classes>>

OutputsShape(a, b, random_target_shape, average_target_size) ==
    IF a.neural_model THEN Squeeze(NetworkShape(a.output_type, b))
    ELSE IF a.model_type = "random"
         THEN IF a.output_type = "regression" THEN random_target_shape
              ELSE <<random_target_shape[1], n_classes>>
    ELSE IF a.model_type = "average"
         THEN IF a.output_type = "regression" THEN average_target_size
              ELSE <<average_target_size[1], n_classes>>
    ELSE Squeeze(NetworkShape(a.output_type, b))

(* The prediction of one element of the outputs. *)
PredValue(a, wts, average_label, sample) ==
    IF a.neural_model THEN NetValue(wts, sample)
    ELSE IF a.model_type = "random" THEN RandValue
    ELSE IF a.model_type = "average"
         THEN IF a.output_type = "classification"
              THEN Const(<<ArgMax(AverageRow(a.output_type, average_label)) - 1, 1>>)
              ELSE Const(Clamp01(AverageRow(a.output_type, average_label)[1]))
    ELSE IF a.output_type = "classification" THEN NetValue(wts, sample)
    ELSE Const(Clamp01(<<1, 1>>))

(* get_outputs_preds for the batch with filenames files.  error is the     *)
(* exception raised, "" when the call returns; preds is                    *)
(* preds.view(-1).tolist().                                                *)
get_outputs_preds(a, wts, average_label, files, random_target_shape, average_target_size, grad_enabled) ==
    LET b == Len(files)
        shape == OutputsShape(a, b, random_target_shape, average_target_size)
        known == a.neural_model \/ a.model_type \in {"random", "average", "probability"}
        pshape == IF a.output_type = "classification" THEN <<shape[1]>> ELSE shape
    IN  IF ~known THEN
            [error |-> "UnboundLocalError", shape |-> <<>>, requires_grad |-> FALSE,
             preds |-> <<>>]
        ELSE IF a.output_type = "classification" /\ Len(shape) < 2 THEN
            [error |-> "IndexError", shape |-> shape, requires_grad |-> FALSE,
             preds |-> <<>>]
        ELSE
            [error |-> "", shape |-> shape,
             requires_grad |->
                 grad_enabled /\ (a.neural_model \/ a.model_type = "probability"),
             preds |-> [k \in 1 .. Numel(pshape) |->
                 PredValue(a, wts, average_label, IF k <= b THEN files[k] ELSE 0)]]

(* create_prediction_file. *)
create_prediction_file(model_type, phase, epoch) ==
    IF model_type # "probability"
    THEN [phase |-> phase, epoch |-> epoch, binary |-> FALSE, open |-> TRUE,
          content |-> <<HeaderLabelled>>]
    ELSE [phase |-> phase, epoch |-> epoch, binary |-> TRUE, open |-> TRUE,
          content |-> <<>>]

(* The lines of one batch: zip(filename, labels, preds). *)
BatchLines(files, preds) ==
    [k \in 1 .. Min(Len(files), Len(preds)) |->
        SampleLine(files[k], SampleLabel(files[k]), preds[k])]

InferenceLines(files, preds) ==
    [k \in 1 .. Min(Len(files), Len(preds)) |-> InferenceLine(files[k], preds[k])]

(* outputs.tolist() of a tensor with at least one dimension: one entry per *)
(* index of the first dimension, each of the remaining shape.              *)
ProbabilityEntries(files, shape) ==
    [k \in 1 .. shape[1] |->
        [sample |-> IF k <= Len(files) THEN files[k] ELSE 0, dims |-> Tail(shape)]]

(* Whether run_epoch computes gradients and steps the optimizer (lines     *)
(* 193, 197 and 203).                                                      *)
GradAlways(ph) == TRUE
GradEnabled(ph) == ph = "train"

(* Whether test and inference load the training split instead of the      *)
(* checkpoint (lines 404 and 463).                                         *)
LoadsTrainSetNever(a) == FALSE
LoadsTrainSet(a) == a.statistical_model

(* The comparison that decides a checkpoint (line 371). *)
Improves(validation_score, best) == validation_score > best

(***************************************************************************)
(* State.                                                                  *)
(***************************************************************************)
VARIABLES
    pc,                 \* where the control is: "new", "idle", "call", "epoch_loop",
                        \* "epoch_returned", "epoch_end", "inference_loop", "done", "raised"
    op,                 \* the public method running: "train", "test", "inference", "run_epoch"
    failure,            \* the exception that ended the run ("" if none)
    args,               \* model_type, output_type, neural_model, statistical_model
    training,           \* the module is in training mode (model.train())
    weights,            \* the model's state_dict: the number of optimizer steps behind it
    optimizer,          \* the optimizer's state: the steps it has taken
    checkpoint,         \* the file at model_path
    checkpoint_read,    \* the running method has read the checkpoint
    trained,            \* a call that updates the weights has been made
    phase, epoch, loader, idx, selection_metric, train_set,   \* run_epoch's arguments and loop
    average_label,      \* self.average_label
    prediction_file,    \* the prediction file of the current call
    output_probability_list,
    epoch_main_metric,  \* run_epoch's second result
    zero_grads, backwards, steps,        \* calls made by the current run_epoch
    call_weights, call_optimizer,        \* weights and optimizer state when it was called
    train_loader, validation_loader, number_of_epochs, train_metric,   \* train's arguments
    best_validation_score, best_model_wts,
    validation_scores,  \* the validation scores of the epochs completed
    epoch_end_wts,      \* the weights at the end of each epoch completed
    checkpoint_writes,  \* the epochs at whose end train wrote the checkpoint
    test_score          \* run_report's test_score entry and the metric it was selected by

objectVars == <<args, training, weights, optimizer, checkpoint, checkpoint_read, trained,
                average_label>>
epochVars == <<phase, epoch, loader, idx, selection_metric, train_set, prediction_file,
               output_probability_list, epoch_main_metric, zero_grads, backwards, steps,
               call_weights, call_optimizer>>
trainVars == <<train_loader, validation_loader, number_of_epochs, train_metric,
               best_validation_score, best_model_wts, validation_scores, epoch_end_wts,
               checkpoint_writes>>
vars == <<pc, op, failure, objectVars, epochVars, trainVars, test_score>>

NoArgs == [model_type |-> "", output_type |-> "", neural_model |-> FALSE,
           statistical_model |-> FALSE]
NoCheckpoint == [exists |-> FALSE, wts |-> 0]
(* A checkpoint left at model_path by an earlier training run: weights     *)
(* that are none of this run's.                                            *)
PriorCheckpoint == [exists |-> TRUE, wts |-> -1]
NoTestScore == [recorded |-> FALSE, value |-> 0, metric |-> <<>>]

InitWith(checkpoints) ==
    /\ pc = "new" /\ op = "none" /\ failure = ""
    /\ args = NoArgs /\ training = FALSE /\ weights = 0 /\ optimizer = 0
    /\ checkpoint \in checkpoints /\ checkpoint_read = FALSE /\ trained = FALSE
    /\ average_label = NoAverage
    /\ phase = "" /\ epoch = 0 /\ loader = <<>> /\ idx = 0
    /\ selection_metric = <<>> /\ train_set = NoTrainSet
    /\ prediction_file = NoFile /\ output_probability_list = <<>>
    /\ epoch_main_metric = 0
    /\ zero_grads = 0 /\ backwards = 0 /\ steps = 0
    /\ call_weights = 0 /\ call_optimizer = 0
    /\ train_loader = <<>> /\ validation_loader = <<>> /\ number_of_epochs = 0
    /\ train_metric = <<>> /\ best_validation_score = 0 /\ best_model_wts = 0
    /\ validation_scores = <<>> /\ epoch_end_wts = <<>> /\ checkpoint_writes = <<>>
    /\ test_score = NoTestScore

(* A run in a fresh directory: there is no checkpoint until train writes   *)
(* one.                                                                    *)
Init == InitWith({NoCheckpoint})

(* A run that may find the checkpoint of an earlier training run. *)
InitEval == InitWith({NoCheckpoint, PriorCheckpoint})

(* An exception leaves the method: the run ends. *)
Raised(e) == pc' = "raised" /\ failure' = e

(***************************************************************************)
(* __init__ (lines 31-81).  Every model_type but "light" builds the        *)
(* inception network; an output_type that is neither "regression" nor      *)
(* "classification" leaves self.model unset, and line 65 raises.           *)
(***************************************************************************)
Construct(model_type, output_type) ==
    /\ pc = "new"
    /\ IF output_type \notin {"regression", "classification"}
       THEN /\ Raised("AttributeError")
            /\ UNCHANGED args
       ELSE /\ pc' = "idle"
            /\ failure' = ""
            /\ args' = [model_type |-> model_type, output_type |-> output_type,
                        neural_model |-> model_type \in NeuralModels,
                        statistical_model |-> model_type \in StatisticalModels]
    /\ UNCHANGED <<op, training, weights, optimizer, checkpoint, checkpoint_read, trained,
                   average_label, epochVars, trainVars, test_score>>

(***************************************************************************)
(* run_epoch (lines 147-315).                                              *)
(***************************************************************************)

(* Lines 166-182: the assert, the mode, the prediction file, the average   *)
(* label and the probability list.                                         *)
RunEpochBegin ==
    /\ pc = "call"
    /\ idx' = 0 /\ zero_grads' = 0 /\ backwards' = 0 /\ steps' = 0
    /\ call_weights' = weights /\ call_optimizer' = optimizer
    /\ epoch_main_metric' = 0
    /\ IF phase \notin Phases
       THEN /\ Raised("AssertionError")
            /\ UNCHANGED <<training, prediction_file, average_label,
                           output_probability_list>>
       ELSE /\ training' = (phase = "train")
            /\ prediction_file' = create_prediction_file(args.model_type, phase, epoch)
            /\ output_probability_list' = <<>>
            /\ IF args.model_type = "average"
               THEN \E r \in calculate_average_label(args.output_type, train_set) :
                       IF r.error # ""
                       THEN Raised(r.error) /\ UNCHANGED average_label
                       ELSE /\ average_label' = r.value
                            /\ pc' = "epoch_loop" /\ failure' = ""
               ELSE /\ pc' = "epoch_loop" /\ failure' = ""
                    /\ UNCHANGED average_label
    /\ UNCHANGED <<op, args, weights, optimizer, checkpoint, checkpoint_read, trained,
                   phase, epoch, loader, selection_metric, train_set, trainVars,
                   test_score>>

(* Lines 184-222: one batch. *)
RunEpochBatch ==
    /\ pc = "epoch_loop"
    /\ idx < Len(loader)
    /\ LET files == BatchFiles(loader, idx + 1)
           train == GradEnabled(phase)
           r == get_outputs_preds(args, weights, average_label, files,
                                  <<Len(files)>>, <<Len(files)>>, train)
           stepped == train /\ r.error = "" /\ r.requires_grad
       IN  /\ zero_grads' = IF train THEN zero_grads + 1 ELSE zero_grads
           /\ backwards' = IF stepped THEN backwards + 1 ELSE backwards
           /\ steps' = IF stepped THEN steps + 1 ELSE steps
           /\ weights' = IF stepped THEN weights + 1 ELSE weights
           /\ optimizer' = IF stepped THEN optimizer + 1 ELSE optimizer
           /\ IF r.error # ""
              THEN /\ Raised(r.error)
                   /\ UNCHANGED <<idx, prediction_file, output_probability_list>>
              ELSE IF train /\ ~r.requires_grad
              THEN /\ Raised("RuntimeError")
                   /\ UNCHANGED <<idx, prediction_file, output_probability_list>>
              ELSE IF args.model_type = "probability" /\ r.shape = <<>>
              THEN /\ Raised("TypeError")
                   /\ UNCHANGED <<idx, prediction_file, output_probability_list>>
              ELSE /\ idx' = idx + 1
                   /\ UNCHANGED <<pc, failure>>
                   /\ IF args.model_type = "probability"
                      THEN /\ output_probability_list' =
                                output_probability_list \o ProbabilityEntries(files, r.shape)
                           /\ UNCHANGED prediction_file
                      ELSE /\ prediction_file' =
                                [prediction_file EXCEPT
                                    !.content = @ \o BatchLines(files, r.preds)]
                           /\ UNCHANGED output_probability_list
    /\ UNCHANGED <<op, args, training, checkpoint, checkpoint_read, trained, average_label,
                   phase, epoch, loader, selection_metric, train_set, epoch_main_metric,
                   call_weights, call_optimizer, trainVars, test_score>>

(* Lines 271-315: the evaluator's score, the selection of the main metric, *)
(* the trailer (or the probability dump), the close and the return.        *)
RunEpochFinalize(epoch_score) ==
    /\ pc = "epoch_loop"
    /\ idx = Len(loader)
    /\ IF SelectionError(selection_metric) # ""
       THEN /\ Raised(SelectionError(selection_metric))
            /\ UNCHANGED <<prediction_file, epoch_main_metric>>
       ELSE LET parts == Split(selection_metric)
                metric == MainMetric(epoch_score, selection_metric)
            IN  /\ epoch_main_metric' = metric
                /\ prediction_file' =
                       [prediction_file EXCEPT
                           !.content = @ \o
                               IF args.model_type = "probability"
                               THEN <<PickleBlob(output_probability_list)>>
                               ELSE <<TrailerLine(epoch, parts[2], parts[1], metric)>>,
                           !.open = FALSE]
                /\ pc' = "epoch_returned"
                /\ UNCHANGED failure
    /\ UNCHANGED <<op, objectVars, phase, epoch, loader, idx, selection_metric, train_set,
                   output_probability_list, zero_grads, backwards, steps, call_weights,
                   call_optimizer, trainVars, test_score>>

(* The caller's locals are dropped when it starts a new run_epoch call. *)
CallRunEpoch(ph, ep, ld, metric, ts) ==
    /\ pc' = "call"
    /\ phase' = ph /\ epoch' = ep /\ loader' = ld
    /\ selection_metric' = metric /\ train_set' = ts
    /\ idx' = 0 /\ prediction_file' = NoFile /\ output_probability_list' = <<>>
    /\ epoch_main_metric' = 0
    /\ zero_grads' = 0 /\ backwards' = 0 /\ steps' = 0
    /\ call_weights' = weights /\ call_optimizer' = optimizer

(***************************************************************************)
(* train (lines 317-392).                                                  *)
(***************************************************************************)

(* Lines 328-347: the loaders, the best score so far and the first call. *)
TrainBegin(tl, vl, n, metric) ==
    /\ pc = "idle" /\ ~trained
    /\ op' = "train" /\ trained' = TRUE
    /\ train_loader' = tl /\ validation_loader' = vl
    /\ number_of_epochs' = n /\ train_metric' = metric
    /\ best_validation_score' = 0 /\ best_model_wts' = weights
    /\ validation_scores' = <<>> /\ epoch_end_wts' = <<>> /\ checkpoint_writes' = <<>>
    /\ checkpoint_read' = FALSE
    /\ CallRunEpoch("train", 1, tl, metric, NoTrainSet)
    /\ UNCHANGED <<failure, args, training, weights, optimizer, checkpoint, average_label,
                   test_score>>

(* Lines 350-359: the train pass returned; the validation pass is called. *)
TrainAfterTrainPhase ==
    /\ pc = "epoch_returned" /\ op = "train" /\ phase = "train"
    /\ CallRunEpoch("validation", epoch, validation_loader, train_metric, NoTrainSet)
    /\ UNCHANGED <<op, failure, objectVars, trainVars, test_score>>

(* Lines 360-380: the validation pass returned; the checkpoint decision. *)
TrainAfterValidation ==
    /\ pc = "epoch_returned" /\ op = "train" /\ phase = "validation"
    /\ pc' = "epoch_end"
    /\ validation_scores' = Append(validation_scores, epoch_main_metric)
    /\ epoch_end_wts' = Append(epoch_end_wts, weights)
    /\ IF Improves(epoch_main_metric, best_validation_score)
       THEN /\ best_validation_score' = epoch_main_metric
            /\ best_model_wts' = weights
            /\ checkpoint' = [exists |-> TRUE, wts |-> weights]
            /\ checkpoint_writes' = Append(checkpoint_writes, epoch)
       ELSE UNCHANGED <<best_validation_score, best_model_wts, checkpoint,
                        checkpoint_writes>>
    /\ UNCHANGED <<op, failure, args, training, weights, optimizer, checkpoint_read,
                   trained, average_label, epochVars, train_loader, validation_loader,
                   number_of_epochs, train_metric, test_score>>

(* Line 345: the next epoch. *)
TrainNextEpoch ==
    /\ pc = "epoch_end" /\ epoch < number_of_epochs
    /\ CallRunEpoch("train", epoch + 1, train_loader, train_metric, NoTrainSet)
    /\ UNCHANGED <<op, failure, objectVars, trainVars, test_score>>

(* Lines 382-392: the last epoch is over. *)
TrainReturn ==
    /\ pc = "epoch_end" /\ epoch = number_of_epochs
    /\ pc' = "done"
    /\ UNCHANGED <<op, failure, objectVars, epochVars, trainVars, test_score>>

(***************************************************************************)
(* test (lines 394-455).  run_epoch is called without a selection metric,  *)
(* so with its default, "recall_micro".                                    *)
(***************************************************************************)
TestBegin(tl, labels) ==
    /\ pc = "idle"
    /\ op' = "test"
    /\ test_score' = NoTestScore
    /\ IF LoadsTrainSet(args)
       THEN /\ CallRunEpoch("test", 1, tl, RecallMicro, LoadedTrainSet(labels))
            /\ checkpoint_read' = FALSE
            /\ UNCHANGED <<failure, weights>>
       ELSE /\ IF checkpoint.exists
               THEN /\ weights' = checkpoint.wts
                    /\ checkpoint_read' = TRUE
                    /\ CallRunEpoch("test", 1, tl, RecallMicro, NoTrainSet)
                    /\ UNCHANGED failure
               ELSE /\ Raised("FileNotFoundError")
                    /\ checkpoint_read' = FALSE
                    /\ UNCHANGED <<weights, epochVars>>
    /\ UNCHANGED <<args, training, optimizer, checkpoint, trained, average_label,
                   trainVars>>

(* Lines 423-455: the results go into the run report. *)
TestAfterEpoch ==
    /\ pc = "epoch_returned" /\ op = "test"
    /\ pc' = "done"
    /\ test_score' = [recorded |-> TRUE, value |-> epoch_main_metric,
                      metric |-> selection_metric]
    /\ UNCHANGED <<op, failure, objectVars, epochVars, trainVars>>

(***************************************************************************)
(* inference (lines 457-503).                                              *)
(***************************************************************************)

(* Lines 463-480: restoration, the prediction file and the average label. *)
InferenceBegin(il, labels) ==
    /\ pc = "idle"
    /\ op' = "inference"
    /\ phase' = "inference" /\ epoch' = 1 /\ loader' = il /\ idx' = 0
    /\ selection_metric' = <<>> /\ output_probability_list' = <<>>
    /\ epoch_main_metric' = 0
    /\ zero_grads' = 0 /\ backwards' = 0 /\ steps' = 0
    /\ call_optimizer' = optimizer
    /\ IF LoadsTrainSet(args)
       THEN /\ train_set' = LoadedTrainSet(labels)
            /\ prediction_file' =
                   [create_prediction_file(args.model_type, "inference", 1)
                       EXCEPT !.content = @ \o <<HeaderUnlabelled>>]
            /\ training' = FALSE
            /\ checkpoint_read' = FALSE
            /\ call_weights' = weights
            /\ UNCHANGED weights
            /\ IF args.model_type = "average"
               THEN \E r \in calculate_average_label(args.output_type,
                                                     LoadedTrainSet(labels)) :
                       IF r.error # ""
                       THEN Raised(r.error) /\ UNCHANGED average_label
                       ELSE /\ average_label' = r.value
                            /\ pc' = "inference_loop" /\ UNCHANGED failure
               ELSE /\ pc' = "inference_loop"
                    /\ UNCHANGED <<failure, average_label>>
       ELSE /\ train_set' = NoTrainSet
            /\ UNCHANGED average_label
            /\ IF ~checkpoint.exists
               THEN /\ Raised("FileNotFoundError")
                    /\ checkpoint_read' = FALSE
                    /\ call_weights' = weights
                    /\ UNCHANGED <<weights, training, prediction_file>>
               ELSE /\ weights' = checkpoint.wts
                    /\ call_weights' = checkpoint.wts
                    /\ checkpoint_read' = TRUE
                    /\ training' = FALSE
                    /\ IF args.model_type = "probability"
                       THEN /\ prediction_file' =
                                  create_prediction_file(args.model_type, "inference", 1)
                            /\ Raised("TypeError")
                       ELSE /\ prediction_file' =
                                  [create_prediction_file(args.model_type, "inference", 1)
                                      EXCEPT !.content = @ \o <<HeaderUnlabelled>>]
                            /\ pc' = "inference_loop" /\ UNCHANGED failure
    /\ UNCHANGED <<args, optimizer, checkpoint, trained, trainVars, test_score>>

(* Lines 482-495: one batch. *)
InferenceBatch ==
    /\ pc = "inference_loop"
    /\ idx < Len(loader)
    /\ LET files == BatchFiles(loader, idx + 1)
           r == get_outputs_preds(args, weights, average_label, files,
                                  <<Len(files), 3, InputSize, InputSize>>,
                                  <<Len(files)>>, TRUE)
       IN  IF r.error # ""
           THEN /\ Raised(r.error)
                /\ UNCHANGED <<idx, prediction_file>>
           ELSE /\ idx' = idx + 1
                /\ prediction_file' =
                       [prediction_file EXCEPT
                           !.content = @ \o InferenceLines(files, r.preds)]
                /\ UNCHANGED <<pc, failure>>
    /\ UNCHANGED <<op, objectVars, phase, epoch, loader, selection_metric, train_set,
                   output_probability_list, epoch_main_metric, zero_grads, backwards,
                   steps, call_weights, call_optimizer, trainVars, test_score>>

(* Lines 497-503: the loop is over and inference returns without a call of  *)
(* close on the file. Its last reference is the local variable, so whether *)
(* the file is closed on return is the interpreter's choice: a reference   *)
(* counting one finalizes the file object at once, another one later.      *)
InferenceReturn ==
    /\ pc = "inference_loop"
    /\ idx = Len(loader)
    /\ pc' = "done"
    /\ \E finalized \in BOOLEAN :
           prediction_file' = [prediction_file EXCEPT !.open = ~finalized]
    /\ UNCHANGED <<op, failure, objectVars, phase, epoch, loader, idx, selection_metric,
                   train_set, output_probability_list, epoch_main_metric, zero_grads,
                   backwards, steps, call_weights, call_optimizer, trainVars,
                   test_score>>

(***************************************************************************)
(* run_epoch called on its own on an object that has not been trained,     *)
(* with the arguments its signature takes and train_set left at its        *)
(* default, None.                                                          *)
(***************************************************************************)
DirectRunEpoch(ph, ld, metric) ==
    /\ pc = "idle" /\ ~trained
    /\ op' = "run_epoch"
    /\ trained' = (ph = "train")
    /\ checkpoint_read' = FALSE
    /\ CallRunEpoch(ph, 1, ld, metric, NoTrainSet)
    /\ UNCHANGED <<failure, args, training, weights, optimizer, checkpoint, average_label,
                   trainVars, test_score>>

DirectReturn ==
    /\ pc = "epoch_returned" /\ op = "run_epoch"
    /\ pc' = "done"
    /\ UNCHANGED <<op, failure, objectVars, epochVars, trainVars, test_score>>

(* The method has returned; its caller goes on to the next call. *)
NextCall ==
    /\ pc = "done"
    /\ pc' = "idle" /\ op' = "none"
    /\ phase' = "" /\ epoch' = 0 /\ loader' = <<>> /\ idx' = 0
    /\ selection_metric' = <<>> /\ train_set' = NoTrainSet
    /\ prediction_file' = NoFile /\ output_probability_list' = <<>>
    /\ epoch_main_metric' = 0
    /\ zero_grads' = 0 /\ backwards' = 0 /\ steps' = 0
    /\ call_weights' = 0 /\ call_optimizer' = 0
    /\ train_loader' = <<>> /\ validation_loader' = <<>> /\ number_of_epochs' = 0
    /\ best_validation_score' = 0 /\ best_model_wts' = 0
    /\ validation_scores' = <<>> /\ epoch_end_wts' = <<>> /\ checkpoint_writes' = <<>>
    /\ checkpoint_read' = FALSE
    /\ test_score' = NoTestScore
    /\ UNCHANGED <<failure, args, training, weights, optimizer, checkpoint, trained,
                   average_label, train_metric>>

Next ==
    \/ pc = "new" /\ \E mt \in ModelTypes, ot \in OutputTypes : Construct(mt, ot)
    \/ pc = "idle" /\ \E tl \in Loaders, vl \in Loaders, n \in 1 .. MaxEpochs,
                         m \in SelectionMetrics : TrainBegin(tl, vl, n, m)
    \/ RunEpochBegin
    \/ RunEpochBatch
    \/ \E t \in ScoreTuples : RunEpochFinalize(t)
    \/ TrainAfterTrainPhase
    \/ TrainAfterValidation
    \/ TrainNextEpoch
    \/ TrainReturn
    \/ pc = "idle" /\ \E tl \in Loaders, labels \in TrainSets(args) : TestBegin(tl, labels)
    \/ TestAfterEpoch
    \/ pc = "idle" /\ \E il \in Loaders, labels \in TrainSets(args) :
                         InferenceBegin(il, labels)
    \/ InferenceBatch
    \/ InferenceReturn
    \/ pc = "idle" /\ \E ph \in Phases \cup {"evaluate"}, ld \in Loaders,
                         m \in SelectionMetrics : DirectRunEpoch(ph, ld, m)
    \/ DirectReturn
    \/ NextCall

Spec == Init /\ [][Next]_vars

(* The calls that evaluate: test, inference and run_epoch on its own, on   *)
(* an object that train is not called on.                                  *)
NextEval ==
    \/ pc = "new" /\ \E mt \in ModelTypes, ot \in OutputTypes : Construct(mt, ot)
    \/ RunEpochBegin
    \/ RunEpochBatch
    \/ \E t \in ScoreTuples : RunEpochFinalize(t)
    \/ pc = "idle" /\ \E tl \in Loaders, labels \in TrainSets(args) : TestBegin(tl, labels)
    \/ TestAfterEpoch
    \/ pc = "idle" /\ \E il \in Loaders, labels \in TrainSets(args) :
                         InferenceBegin(il, labels)
    \/ InferenceBatch
    \/ InferenceReturn
    \/ pc = "idle" /\ \E ph \in Phases \cup {"evaluate"}, ld \in Loaders,
                         m \in SelectionMetrics : DirectRunEpoch(ph, ld, m)
    \/ DirectReturn
    \/ NextCall

SpecEval == InitEval /\ [][NextEval]_vars

(***************************************************************************)
(* Properties.                                                             *)
(***************************************************************************)
NonIncreasing(s) == \A i \in 1 .. Len(s) - 1 : s[i] >= s[i + 1]

(* The earliest epoch with the highest validation score. *)
BestEpoch(s) ==
    CHOOSE e \in 1 .. Len(s) :
        /\ \A j \in 1 .. Len(s) : s[j] <= s[e]
        /\ \A j \in 1 .. e - 1 : s[j] < s[e]

SampleLines(file) ==
    SelectSeq(file.content, LAMBDA l : l.kind \in {"sample", "inference sample"})

(* The samples of the batches a loop has processed. *)
SamplesDone == Sum(SubSeq(loader, 1, idx))

(* Control is in run_epoch, or left it by an exception. *)
InRunEpoch == phase \in Phases /\ pc \in {"epoch_loop", "epoch_returned", "raised"}

(* C1: train writes the checkpoint at the end of an epoch only when that   *)
(* epoch's validation score is strictly greater than the score of every    *)
(* earlier epoch, and a non-increasing sequence of validation scores over  *)
(* 5 epochs gives exactly one write, at epoch 1.                           *)
C1_CheckpointOnlyOnStrictImprovement ==
    (op = "train" /\ pc = "epoch_end") =>
        /\ \A k \in DOMAIN checkpoint_writes :
               \A j \in 1 .. checkpoint_writes[k] - 1 :
                   validation_scores[j] < validation_scores[checkpoint_writes[k]]
        /\ (Len(validation_scores) = 5 /\ NonIncreasing(validation_scores))
               => checkpoint_writes = <<1>>

(* C2: after every completed epoch of train the checkpoint file holds the  *)
(* weights of the end of the earliest epoch with the highest validation    *)
(* score so far.                                                           *)
C2_CheckpointHoldsBestEpoch ==
    (op = "train" /\ pc = "epoch_end") =>
        /\ checkpoint.exists
        /\ checkpoint.wts = epoch_end_wts[BestEpoch(validation_scores)]

(* C3: in the validation and test phases run_epoch makes no zero-grad, no  *)
(* backward and no optimizer step, and the weights and the optimizer state *)
(* stay those of the call; in the train phase every batch processed got    *)
(* exactly one zero-grad, one backward and one optimizer step.             *)
C3_GradientsOnlyInTrainPhase ==
    InRunEpoch =>
        /\ phase # "train" =>
               /\ zero_grads = 0 /\ backwards = 0 /\ steps = 0
               /\ weights = call_weights /\ optimizer = call_optimizer
        /\ (phase = "train" /\ pc # "raised") =>
               /\ zero_grads = idx /\ backwards = idx /\ steps = idx
               /\ weights = call_weights + idx /\ optimizer = call_optimizer + idx
        /\ (phase = "train" /\ pc = "epoch_returned") => steps = Len(loader)

C3_Witness ==
    /\ op = "run_epoch" /\ pc = "epoch_returned" /\ phase = "train"
    /\ Len(loader) = 2 /\ zero_grads = 2 /\ backwards = 2 /\ steps = 2
    /\ weights = call_weights + 2

(* C4: run_epoch called with an unrecognized phase or an unrecognized      *)
(* selection metric fails before any batch is processed: no optimizer      *)
(* step, no prediction line, no result.                                    *)
C4_BadArgumentsFailBeforeAnyBatch ==
    (/\ pc \in {"epoch_loop", "epoch_returned", "raised"}
     /\ op \in {"run_epoch", "train", "test"}
     /\ selection_metric # <<>>
     /\ phase \notin Phases \/ SelectionError(selection_metric) # "")
        => /\ idx = 0 /\ steps = 0
           /\ SampleLines(prediction_file) = <<>>
           /\ pc # "epoch_returned"

(* C5: an object with an unrecognized model_type or output_type is never   *)
(* constructed, so no run fails for that reason while get_outputs_preds    *)
(* processes a batch.                                                      *)
RecognizedConfiguration(a) ==
    /\ a.model_type \in {"inception", "light", "random", "average", "probability"}
    /\ a.output_type \in {"regression", "classification"}

C5_ConfigurationErrorsAtConstruction ==
    \/ args = NoArgs
    \/ RecognizedConfiguration(args)
    \/ ~(pc = "raised" /\ failure = "UnboundLocalError")

C5_Failure ==
    /\ ~RecognizedConfiguration(args) /\ args # NoArgs
    /\ pc = "raised" /\ failure = "UnboundLocalError" /\ phase \in Phases

(* C6: with the average baseline every recorded prediction is the average  *)
(* label of the training split: the most frequent class for                *)
(* classification, and for regression the mean (to single precision)       *)
(* clamped to [0, 1], so 1 whenever the mean exceeds 1.                     *)
Abs(x) == IF x < 0 THEN -x ELSE x

(* p is the single-precision number nearest to the mean of labels, or      *)
(* nearer to it than half a unit of p's last binary place.                 *)
NearMean(p, labels) == 2 * Abs(p.n * Len(labels) - Sum(labels) * p.d) <= Len(labels)

MostFrequent(p, labels) ==
    /\ p.d = 1
    /\ Count(labels, p.n) > 0
    /\ \A i \in DOMAIN labels : Count(labels, labels[i]) <= Count(labels, p.n)

AveragePredictions(kinds, ok(_, _)) ==
    (args.model_type = "average" /\ train_set.loaded) =>
        \A i \in DOMAIN prediction_file.content :
            LET l == prediction_file.content[i]
            IN  l.kind \in kinds =>
                    /\ l.pred.src = "const"
                    /\ IF args.output_type = "classification"
                       THEN MostFrequent(l.pred, train_set.labels)
                       ELSE ok(l.pred, train_set.labels)

ClampedMean(p, labels) ==
    IF Sum(labels) > Len(labels) THEN p.n = 1 /\ p.d = 1 ELSE NearMean(p, labels)

C7_ProbabilityFileIsOneList ==
    (args.model_type = "probability" /\ prediction_file.phase # "") =>
        /\ \A i \in DOMAIN prediction_file.content :
               prediction_file.content[i].kind = "pickle"
        /\ Len(prediction_file.content) <= 1
        /\ (\/ pc \in {"epoch_returned", "done"}
            \/ phase = "inference" /\ pc = "raised" /\ failure = "TypeError")
               => Len(prediction_file.content) = 1

(* C8: in test and inference the restoration is done before any batch: a   *)
(* model that is not a statistical baseline has the checkpoint's weights   *)
(* (without a checkpoint the call has raised, with no batch evaluated and  *)
(* no file opened); a statistical baseline reads no checkpoint, holds the  *)
(* training split, and the average label is the one of that split.         *)
AverageOf(output_type, labels, q) ==
    IF output_type = "regression" THEN q = Mean(labels) ELSE MostFrequent(Const(q), labels)

C8_RestorationBeforeBatches ==
    op \in {"test", "inference"} =>
        /\ (~args.statistical_model /\ ~checkpoint.exists) =>
               /\ pc = "raised" /\ failure = "FileNotFoundError"
               /\ idx = 0 /\ prediction_file = NoFile /\ ~checkpoint_read
        /\ (~args.statistical_model /\ checkpoint.exists) =>
               checkpoint_read /\ weights = checkpoint.wts
        /\ args.statistical_model =>
               /\ ~checkpoint_read /\ train_set.loaded /\ weights = call_weights
               /\ (/\ args.model_type = "average"
                   /\ pc \in {"epoch_loop", "epoch_returned", "inference_loop", "done"})
                      => AverageOf(args.output_type, train_set.labels, average_label)

C8_Witness ==
    /\ op = "test" /\ args.neural_model /\ pc = "epoch_loop" /\ idx = 1
    /\ checkpoint_read /\ weights = PriorCheckpoint.wts /\ call_weights = weights

(* C9: the score test records in the run report is selected by the metric  *)
(* train was given.                                                        *)
C9_TestScoreUsesConfiguredMetric ==
    (op = "test" /\ test_score.recorded /\ train_metric # <<>>)
        => test_score.metric = train_metric

(* C10: run_epoch with a learned model raises for no batch size, and every *)
(* sample of every batch processed, a lone sample of a final batch too,    *)
(* has its one prediction line.                                            *)
C10_LearnedModelTakesEveryBatchSize ==
    (args.neural_model /\ InRunEpoch /\ SelectionError(selection_metric) = "") =>
        /\ pc # "raised"
        /\ Len(SampleLines(prediction_file)) = SamplesDone

(* The lines of a file that are header lines. *)
HeaderLines(file) ==
    SelectSeq(file.content,
              LAMBDA l : l.kind \in {HeaderLabelled.kind, HeaderUnlabelled.kind})

(* C11: when inference returns for a model other than the probability one, *)
(* the prediction file is one header line followed by one line per sample  *)
(* of the inference loader, in loader order, and the file is closed.       *)
C11_InferenceFileIsHeaderThenSamples ==
    (op = "inference" /\ pc = "done" /\ args.model_type # "probability") =>
        /\ Len(HeaderLines(prediction_file)) = 1
        /\ Len(prediction_file.content) = 1 + Sum(loader)
        /\ \A i \in 1 .. Sum(loader) :
               i + 1 \in DOMAIN prediction_file.content =>
                   /\ prediction_file.content[i + 1].kind = "inference sample"
                   /\ prediction_file.content[i + 1].filename = i
        /\ ~prediction_file.open

====
